---- MODULE Spec2Model ----
(***************************************************************************)
(* tuifeed: the Ui main loop (src/ui/mod.rs), the reducer                  *)
(* (src/ui/model.rs), the Kiosk source-state store and the FeedClient      *)
(* worker pool.                                                            *)
(*                                                                         *)
(* The main loop is one thread whose position is pc:                       *)
(*   "new"   : Ui::new has returned, run() has not started                 *)
(*   "tick"  : top of `while !self.quit`                                   *)
(*   "msgs"  : inside `for msg in messages`, batch messages left           *)
(*   "tasks" : before run_tasks                                            *)
(*   "poll"  : before poll_fetched_sources                                 *)
(*   "view"  : before check_force_redraw / view                            *)
(*   "done"  : run() has left the loop                                     *)
(*   "panic" : an unwrap() on None unwound the thread                      *)
(* Every FeedClient::fetch is a worker of its own; WorkerFinish is the     *)
(* step with which a worker deposits its result in the completion queue.   *)
(***************************************************************************)
EXTENDS Naturals, Sequences, FiniteSets, TLC

\* ------------------------------------------------------------ bounds

\* FetchSource and FetchAllSources messages reduced in one run (the start-up
\* fetch of every source comes on top).
MaxRefetch == 1

\* ------------------------------------------------------------ inputs

\* Strings in lexicographic order: String::cmp on two of them is the
\* comparison of their positions in this sequence.
StringOrder == <<"a", "ab", "b", "c">>

\* The source names a configuration is drawn from, in lexicographic order.
NameOrder == <<"a", "b">>

Names == {NameOrder[i] : i \in 1..Len(NameOrder)}

\* The [sources] table of the configuration: any set of names.
Configs == SUBSET Names

\* Causes a fetch can fail with (transport or parse error text).
Causes == {"connection refused"}

\* An Article; title is Option<String>: <<>> is None, <<t>> is Some(t).
Art(s, i, titled) ==
    [src |-> s, idx |-> i, title |-> IF titled THEN <<s \o ToString(i)>> ELSE <<>>]

\* Feeds a successful fetch of source s can produce: one without articles,
\* and one of an untitled article followed by a titled one.
FeedsOf(s) ==
    { <<>>,
      <<Art(s, 0, FALSE), Art(s, 1, TRUE)>> }

\* Result<Feed, String> of one fetch of source s.
Ok(f) == [ok |-> TRUE, feed |-> f, err |-> ""]

Err(e) == [ok |-> FALSE, feed |-> <<>>, err |-> e]

ResultsOf(s) == {Ok(f) : f \in FeedsOf(s)} \cup {Err(e) : e \in Causes}

\* ------------------------------------------------------------ FeedState

Loading == [tag |-> "Loading", feed |-> <<>>, msg |-> ""]

Success(f) == [tag |-> "Success", feed |-> f, msg |-> ""]

Error(m) == [tag |-> "Error", feed |-> <<>>, msg |-> m]

\* FlatFeedState::from(&FeedState): the payload is dropped.
Flat(st) == st.tag

\* ------------------------------------------------------------ Kiosk

\* Kiosk::default()
KioskDefault == [n \in {} |-> Loading]

\* Kiosk::insert_feed(name, state): a map insert, overwriting.
InsertFeed(k, name, st) ==
    [n \in (DOMAIN k) \cup {name} |-> IF n = name THEN st ELSE k[n]]

\* Kiosk::sources(): the keys.
Sources(k) == DOMAIN k

\* Kiosk::get_feed(name) -> Option<&Feed>: <<feed>> for a source in state
\* Success, <<>> (None) for an absent name and for Loading and Error.
GetFeed(k, name) ==
    IF name \in DOMAIN k /\ k[name].tag = "Success" THEN <<k[name].feed>> ELSE <<>>

\* ------------------------------------------------------------ sorting

Rank(n) == CHOOSE i \in 1..Len(StringOrder) : StringOrder[i] = n

RECURSIVE SortNames(_)
\* Vec::sort() of a set of names.
SortNames(S) ==
    IF S = {} THEN <<>>
    ELSE LET m == CHOOSE x \in S : \A y \in S : Rank(x) <= Rank(y)
         IN  <<m>> \o SortNames(S \ {m})

\* sorted_sources with the order of its result turned round.
SortedSourcesReversed(k) ==
    LET s == SortNames(Sources(k))
    IN  [i \in 1..Len(s) |-> s[Len(s) + 1 - i]]

\* Ui::sorted_sources
SortedSources(k) == SortNames(Sources(k))

\* ------------------------------------------------------------ FeedClient

\* FeedClient::fetch(name, uri): one more worker, independent of the others.
\* A worker is <<name, gen>>, gen the number of the fetch among those of name.
ClientFetch(running, name, gen) == running \cup {<<name, gen>>}

\* poll() returning the newest completion instead.
ClientPollNewest(q) == IF q = <<>> THEN <<>> ELSE <<q[Len(q)]>>

\* FeedClient::poll(): the oldest completion, if any: <<c>> or <<>>.  The
\* queue holds which worker ended, [name, gen]; the Result the worker
\* deposited with it is read by nobody before poll returns it, and is drawn
\* from ResultsOf(name) at that point (PollCompletion).
ClientPoll(q) == IF q = <<>> THEN <<>> ELSE <<Head(q)>>

\* The completion queue after a poll() that returned a completion.
ClientTaken(q) == Tail(q)

\* Fetches of name that have not been polled: running or in the queue.
Outstanding(running, q, name) ==
    Cardinality({w \in running : w[1] = name})
        + Cardinality({i \in 1..Len(q) : q[i].name = name})

\* ------------------------------------------------------------ components

\* components::lists::FEED_STATE_ERROR, FEED_STATE_LOADING and
\* FEED_STATE_SUCCESS: the three codes a row's state is handed over as.
FEED_STATE_ERROR == "FEED_STATE_ERROR"

FEED_STATE_LOADING == "FEED_STATE_LOADING"

FEED_STATE_SUCCESS == "FEED_STATE_SUCCESS"

\* FeedList after attr(Custom(FEED_LIST_PROP_ITEMS), Tup2(name, code)):
\* the row of name shows the status the code stands for.
FeedListAttr(rows, name, code) ==
    [n \in (DOMAIN rows) \cup {name} |->
        IF n # name THEN rows[n]
        ELSE CASE code = FEED_STATE_ERROR   -> "Error"
               [] code = FEED_STATE_LOADING -> "Loading"
               [] code = FEED_STATE_SUCCESS -> "Success"]

\* Kiosk::get_state(): the flat state of every source.
GetState(k) == [n \in DOMAIN k |-> Flat(k[n])]

\* Model::get_feed_list: the rows of the FeedList component, by name.
GetFeedList(k) == GetState(k)

\* The order in which get_feed_list hands the rows to the component.
FeedListOrder(k) == SortNames(DOMAIN GetState(k))

\* State of a freshly mounted FeedList: the first row when there is one.
FeedListInitState(k) == IF DOMAIN k = {} THEN <<>> ELSE <<0>>

RECURSIVE TitlesOf(_)
\* The titles of the articles that have one, in feed order (map + flatten).
TitlesOf(feed) ==
    IF feed = <<>> THEN <<>>
    ELSE Head(feed).title \o TitlesOf(Tail(feed))

\* Model::get_article_list: the content of the ArticleList component.  Every
\* title of FeedsOf is shorter than max_article_name_len, so
\* elide_string_at returns it as it is.
GetArticleList(feed) == TitlesOf(feed)

\* Model::get_empty_article_list
GetEmptyArticleList == <<>>

\* Ui::is_article_list_empty, list the content of the mounted ArticleList
\* (an unmounted one counts as empty as well).
IsArticleListEmpty(list) == list = <<>>

\* feed.articles().nth(j): <<article>> or <<>>.
Nth(feed, j) == IF j < Len(feed) THEN <<feed[j + 1]>> ELSE <<>>

\* ------------------------------------------------------------ serializer

\* Lines a configuration file is made of.
MaxLines == 3

\* The lines of the TOML documents of the serializer tests: the [sources]
\* table header, a key with its value, and a key without one.
TableLine == [kind |-> "table", key |-> "sources", value |-> ""]

PairLine(k, v) == [kind |-> "pair", key |-> k, value |-> v]

BareLine(k) == [kind |-> "bare", key |-> k, value |-> ""]

Lines ==
    { TableLine,
      PairLine("nytimes", "https://rss.nytimes.com/services/xml/rss/nyt/World.xml"),
      PairLine("lefigaro", "https://www.lefigaro.fr/rss/figaro_actualites.xml"),
      BareLine("lefigaro") }

\* create_good_toml_config and create_bad_toml_config
GoodToml ==
    << TableLine,
       PairLine("nytimes", "https://rss.nytimes.com/services/xml/rss/nyt/World.xml"),
       PairLine("lefigaro", "https://www.lefigaro.fr/rss/figaro_actualites.xml") >>

BadToml ==
    << TableLine,
       PairLine("nytimes", "https://rss.nytimes.com/services/xml/rss/nyt/World.xml"),
       BareLine("lefigaro") >>

Documents == UNION {[1..n -> Lines] : n \in 0..MaxLines}

\* What read_to_string can fail with.
ReadErrors == {"stream did not contain valid UTF-8"}

\* A Read: read_to_string gives data, or fails with err = <<e>>.
Readables ==
    [data : Documents, err : {<<>>} \cup {<<e>> : e \in ReadErrors}]

NoReadable == [data |-> <<>>, err |-> <<>>]

\* Config { sources }: name -> URI.
ConfigOf(pairs) == [sources |-> pairs]

NoConfig == ConfigOf([k \in {} |-> ""])

\* SerializerError::new
SerializerError(kind, msg) == [kind |-> kind, msg |-> msg]

NoError == SerializerError("", "")

\* #[error(..)] of SerializerErrorKind
KindText(kind) == IF kind = "Io" THEN "IO error" ELSE "Syntax error"

\* impl Display for SerializerError
Fmt(e) == KindText(e.kind) \o " (" \o e.msg \o ")"

\* Result<S, SerializerError>
SerOk(v) == [ok |-> TRUE, val |-> v, err |-> NoError]

SerErr(e) == [ok |-> FALSE, val |-> NoConfig, err |-> e]

\* toml::de::from_str::<Config>(data): [ok, val, msg].  A key without a
\* value, a key given twice in one table, a second [sources] header and a
\* document without the sources table are errors; otherwise the pairs of the
\* sources table are the configuration.
TomlFromStr(data) ==
    LET idx == 1..Len(data)
        bare == {i \in idx : data[i].kind = "bare"}
        heads == {i \in idx : data[i].kind = "table"}
        Table(i) == Cardinality({h \in heads : h < i})
        dup == {i \in idx : \E j \in idx :
                    /\ j < i
                    /\ data[i].kind = "pair" /\ data[j].kind = "pair"
                    /\ data[i].key = data[j].key
                    /\ Table(i) = Table(j)}
        rows == {i \in idx : data[i].kind = "pair" /\ Table(i) = 1}
        keys == {data[i].key : i \in rows}
        Bad(m) == [ok |-> FALSE, val |-> NoConfig, msg |-> m]
    IN  IF bare # {}
        THEN Bad("expected an equals, found a newline at line "
                    \o ToString(CHOOSE i \in bare : \A j \in bare : i <= j))
        ELSE IF dup # {} THEN Bad("duplicate key")
        ELSE IF Cardinality(heads) > 1 THEN Bad("redefinition of table sources")
        ELSE IF heads = {} THEN Bad("missing field sources")
        ELSE [ok |-> TRUE,
              val |-> ConfigOf([k \in keys |->
                        data[CHOOSE i \in rows : data[i].key = k].value]),
              msg |-> ""]

\* deserialize that parses whatever was read, read error or not.
DeserializeIgnoresReadError(r) ==
    LET t == TomlFromStr(r.data)
    IN  IF t.ok THEN SerOk(t.val) ELSE SerErr(SerializerError("Syntax", t.msg))

\* config::serializer::deserialize
Deserialize(r) ==
    IF r.err # <<>> THEN SerErr(SerializerError("Io", r.err[1]))
    ELSE LET t == TomlFromStr(r.data)
         IN  IF t.ok THEN SerOk(t.val) ELSE SerErr(SerializerError("Syntax", t.msg))

\* What a function called on its own returned: nothing yet.
NoRet == [fn |-> "none", val |-> <<>>]

\* ------------------------------------------------------------ state

VARIABLES
    config,       \* context.config().sources: the configured names
    kiosk,        \* Ui.kiosk: name -> FeedState
    running,      \* FeedClient: the workers in flight
    queue,        \* FeedClient: the completion queue, oldest first
    feedList,     \* FeedList component: name -> flat state shown
    feedSel,      \* FeedList component state: <<index>> or <<>>
    articleList,  \* ArticleList component: the titles shown
    article,      \* the article mounted in the detail view: <<a>> or <<>>
    quitPopup,    \* QuitPopup mounted
    errorPopup,   \* ErrorPopup: <<text>> mounted, <<>> not mounted
    quit,         \* Ui.quit
    redraw,       \* Ui.redraw
    tasks,        \* the tasks the reducer recorded, oldest first
    batch,        \* messages of the current tick that are not reduced yet
    pc,           \* position of the main loop
    launched,     \* history: name -> fetches launched
    requested,    \* history: name -> fetches requested
    refetches,    \* history: FetchSource / FetchAllSources messages reduced
    overlapped,   \* history: name -> the latest fetch was launched while
                  \*          another fetch of name was outstanding
    ev,           \* history: what the latest step of the main loop did
    readable,     \* the Read handed to config::serializer::deserialize
    ret           \* what the function called on its own returned

vars == <<config, kiosk, running, queue, feedList, feedSel, articleList,
          article, quitPopup, errorPopup, quit, redraw, tasks, batch, pc,
          launched, requested, refetches, overlapped, ev, readable, ret>>

NoCompletion == [name |-> "", gen |-> 0, result |-> Err("")]

\* ev.op: "none", "fetch" (names: the sources fetched), "poll" (c: the
\* completion applied), "idle" (a poll that found nothing).  prior: the Kiosk
\* tags before the step; wasEmpty: the article list was empty before it.

Tags(k) == [n \in DOMAIN k |-> k[n].tag]

NoEv == [op |-> "none", names |-> {}, c |-> NoCompletion,
         prior |-> Tags(kiosk), wasEmpty |-> FALSE]

\* ------------------------------------------------------------ Ui

\* Ui::new without its loop over the configured names.
NewKioskEmpty(cfg) == KioskDefault

\* Ui::new: the Kiosk holds Loading for every configured name.
RECURSIVE NewKiosk(_)
NewKiosk(cfg) ==
    IF cfg = {} THEN KioskDefault
    ELSE LET n == CHOOSE x \in cfg : TRUE
         IN  InsertFeed(NewKiosk(cfg \ {n}), n, Loading)

\* The part of the Ui that a fetch request writes, as one record.
UiOf(k, r, fl, l, o) ==
    [kiosk |-> k, running |-> r, feedList |-> fl, launched |-> l, overlapped |-> o]

\* update_feed_list with the code of Loading in its Error arm.
UpdateFeedListErrorAsLoading(rows, name, flat) ==
    FeedListAttr(rows, name,
                 CASE flat = "Error"   -> FEED_STATE_LOADING
                   [] flat = "Loading" -> FEED_STATE_LOADING
                   [] flat = "Success" -> FEED_STATE_SUCCESS)

\* Ui::update_feed_list: the flat state is turned into the component's code
\* and handed to the FeedList with the name.
UpdateFeedList(rows, name, flat) ==
    FeedListAttr(rows, name,
                 CASE flat = "Error"   -> FEED_STATE_ERROR
                   [] flat = "Loading" -> FEED_STATE_LOADING
                   [] flat = "Success" -> FEED_STATE_SUCCESS)

\* fetch_source without its client.fetch(name, uri).
FetchSourceNoWorker(u, q, name) ==
    [kiosk      |-> InsertFeed(u.kiosk, name, Loading),
     running    |-> u.running,
     feedList   |-> UpdateFeedList(u.feedList, name, Flat(Loading)),
     launched   |-> u.launched,
     overlapped |-> u.overlapped]

\* fetch_source without its insert_feed(name, Loading).
FetchSourceKeepsState(u, q, name) ==
    [kiosk      |-> u.kiosk,
     running    |-> ClientFetch(u.running, name, u.launched[name] + 1),
     feedList   |-> UpdateFeedList(u.feedList, name, Flat(Loading)),
     launched   |-> [u.launched EXCEPT ![name] = @ + 1],
     overlapped |-> [u.overlapped EXCEPT ![name] = Outstanding(u.running, q, name) > 0]]

\* Ui::fetch_source: start a worker, mark the source Loading in the Kiosk
\* and in the feed list.  q is the completion queue (read for the history
\* only).
FetchSource(u, q, name) ==
    [kiosk      |-> InsertFeed(u.kiosk, name, Loading),
     running    |-> ClientFetch(u.running, name, u.launched[name] + 1),
     feedList   |-> UpdateFeedList(u.feedList, name, Flat(Loading)),
     launched   |-> [u.launched EXCEPT ![name] = @ + 1],
     overlapped |-> [u.overlapped EXCEPT ![name] = Outstanding(u.running, q, name) > 0]]

RECURSIVE FetchEach(_, _, _)
FetchEach(u, q, names) ==
    IF names = <<>> THEN u
    ELSE FetchEach(FetchSource(u, q, Head(names)), q, Tail(names))

\* fetch_all_sources leaving out the sources that hold a Feed.
FetchAllSourcesSkipsLoaded(u, q, cfg) ==
    FetchEach(u, q, SortNames({n \in cfg : u.kiosk[n].tag # "Success"}))

\* Ui::fetch_all_sources: fetch_source for every source of the configuration.
FetchAllSources(u, q, cfg) == FetchEach(u, q, SortNames(cfg))

\* Ui::mount_error_popup: (re)mount the popup with the text.
MountErrorPopup(text) == <<text>>

\* The popup text without the name of the source.
FetchErrorTextNoName(name, err) == "Could not fetch feed: " \o err

\* The text poll_fetched_sources gives the popup.
FetchErrorText(name, err) == "Could not fetch feed \"" \o name \o "\": " \o err

\* The text run() gives the popup when tick fails.
TickErrorText == "Application error: " \o "tick"

\* init_article reading the first source that holds a Feed instead.
InitArticleSourceFirstLoaded(k) ==
    LET loaded == {n \in Sources(k) : k[n].tag = "Success"}
    IN  IF loaded = {} THEN <<>> ELSE <<SortNames(loaded)[1]>>

\* The source init_article reads: the first of the sorted sources, if any.
InitArticleSource(k) ==
    IF SortedSources(k) = <<>> THEN <<>> ELSE <<SortedSources(k)[1]>>

\* Ui::init_article, the ArticleList afterwards.
InitArticleList(k, list) ==
    LET src == InitArticleSource(k)
        feed == IF src = <<>> THEN <<>> ELSE GetFeed(k, src[1])
    IN  IF feed = <<>> THEN list ELSE GetArticleList(feed[1])

\* init_article without the remount of the five article components.
InitArticleViewKeeps(k, art) == art

\* Ui::init_article, the article of the detail view afterwards.
InitArticleView(k, art) ==
    LET src == InitArticleSource(k)
        feed == IF src = <<>> THEN <<>> ELSE GetFeed(k, src[1])
    IN  IF feed = <<>> THEN art
        ELSE IF Nth(feed[1], 0) = <<>> THEN art ELSE Nth(feed[1], 0)

\* The match of poll_fetched_sources losing the cause of an Err.
StateOfResultNoCause(result) ==
    IF result.ok THEN Success(result.feed) ELSE Error("")

\* The FeedState poll_fetched_sources makes of a result.
StateOfResult(result) ==
    IF result.ok THEN Success(result.feed) ELSE Error(result.err)

\* poll_fetched_sources without its insert_feed(name, state).
PollKioskLeavesState(k, c) == k

\* poll_fetched_sources storing the polled state under every source.
PollKioskStoresEverywhere(k, c) == [n \in DOMAIN k |-> StateOfResult(c.result)]

\* poll_fetched_sources writing only over Loading: the first completion of
\* a source wins.
PollKioskKeepsSettled(k, c) ==
    IF k[c.name].tag = "Loading" THEN InsertFeed(k, c.name, StateOfResult(c.result))
    ELSE k

\* poll_fetched_sources dropping a source whose fetch failed.
PollKioskDropsFailed(k, c) ==
    IF c.result.ok THEN InsertFeed(k, c.name, StateOfResult(c.result))
    ELSE [n \in (DOMAIN k) \ {c.name} |-> k[n]]

\* poll_fetched_sources, the Kiosk after completion c.
PollKiosk(k, c) == InsertFeed(k, c.name, StateOfResult(c.result))

\* poll_fetched_sources, the feed list after completion c.
PollFeedList(rows, c) == UpdateFeedList(rows, c.name, Flat(StateOfResult(c.result)))

\* poll_fetched_sources, the error popup after completion c.
PollErrorPopup(popup, c) ==
    IF c.result.ok THEN popup
    ELSE MountErrorPopup(FetchErrorText(c.name, c.result.err))

\* poll_fetched_sources fetching a failed source again.
PollRunningRetries(r, c) ==
    IF c.result.ok THEN r ELSE ClientFetch(r, c.name, c.gen)

\* poll_fetched_sources, the workers after completion c: poll starts none.
PollRunning(r, c) == r

\* poll_fetched_sources emptying the ArticleList when the fetch failed.
PollArticleListClearsOnError(k, list, c) ==
    IF ~c.result.ok THEN GetEmptyArticleList
    ELSE IF IsArticleListEmpty(list) THEN InitArticleList(PollKiosk(k, c), list) ELSE list

\* poll_fetched_sources, the ArticleList after completion c.
PollArticleList(k, list, c) ==
    IF IsArticleListEmpty(list) THEN InitArticleList(PollKiosk(k, c), list) ELSE list

\* poll_fetched_sources, the detail view after completion c.
PollArticleView(k, list, art, c) ==
    IF IsArticleListEmpty(list) THEN InitArticleView(PollKiosk(k, c), art) ELSE art

\* ------------------------------------------------------------ reducer

\* Model::view, the popup it draws: the quit popup when it is mounted, else
\* the error popup when that is mounted, else none.
DrawnPopup(quitMounted, errorMounted) ==
    IF quitMounted THEN "quit" ELSE IF errorMounted # <<>> THEN "error" ELSE "none"

\* Model::get_selected_feed_name: [panic, name]; name is <<n>> or <<>>.
\* The unwrap() of sorted_sources().get(feed) panics past the last source.
GetSelectedFeedName(k, sel) ==
    IF sel = <<>> THEN [panic |-> FALSE, name |-> <<>>]
    ELSE IF sel[1] < Len(SortedSources(k))
         THEN [panic |-> FALSE, name |-> <<SortedSources(k)[sel[1] + 1]>>]
         ELSE [panic |-> TRUE, name |-> <<>>]

\* Model::get_selected_feed: [panic, feed]; feed is <<f>> or <<>>.  The
\* unwrap() of kiosk.get_feed(name) panics when the source holds no Feed.
GetSelectedFeed(k, sel) ==
    LET n == GetSelectedFeedName(k, sel)
    IN  IF n.panic THEN [panic |-> TRUE, feed |-> <<>>]
        ELSE IF n.name = <<>> THEN [panic |-> FALSE, feed |-> <<>>]
        ELSE IF GetFeed(k, n.name[1]) = <<>> THEN [panic |-> TRUE, feed |-> <<>>]
        ELSE [panic |-> FALSE, feed |-> GetFeed(k, n.name[1])]

\* Model::update_article(view, j): [panic, article], article the detail view
\* afterwards.
UpdateArticle(k, sel, art, j) ==
    LET f == GetSelectedFeed(k, sel)
    IN  IF f.panic THEN [panic |-> TRUE, article |-> art]
        ELSE IF f.feed = <<>> THEN [panic |-> FALSE, article |-> art]
        ELSE IF Nth(f.feed[1], j) = <<>> THEN [panic |-> FALSE, article |-> art]
        ELSE [panic |-> FALSE, article |-> Nth(f.feed[1], j)]

\* Task::FetchSource(name), Task::FetchSources, Task::ShowError(err)
TaskFetchSource(name) == [t |-> "FetchSource", arg |-> name]

TaskFetchSources == [t |-> "FetchSources", arg |-> ""]

TaskShowError(err) == [t |-> "ShowError", arg |-> err]

\* The error text of helpers::open::open_link.
OpenErrors == {"cannot open link"}

\* ------------------------------------------------------------ run_tasks

\* run_tasks without its Task::FetchSources arm.
RunTaskNoFetchSources(x, q, cfg, task) ==
    IF task.t = "FetchSource"
    THEN [u |-> IF task.arg \in cfg THEN FetchSource(x.u, q, task.arg) ELSE x.u,
          popup |-> x.popup]
    ELSE IF task.t = "FetchSources"
    THEN x
    ELSE [u |-> x.u, popup |-> MountErrorPopup(task.arg)]

\* One task of run_tasks applied to x = [u, popup].
RunTask(x, q, cfg, task) ==
    IF task.t = "FetchSource"
    THEN [u |-> IF task.arg \in cfg THEN FetchSource(x.u, q, task.arg) ELSE x.u,
          popup |-> x.popup]
    ELSE IF task.t = "FetchSources"
    THEN [u |-> FetchAllSources(x.u, q, cfg), popup |-> x.popup]
    ELSE [u |-> x.u, popup |-> MountErrorPopup(task.arg)]

RECURSIVE RunTaskList(_, _, _, _)
\* Ui::run_tasks: the tasks in order.
RunTaskList(x, q, cfg, ts) ==
    IF ts = <<>> THEN x
    ELSE RunTaskList(RunTask(x, q, cfg, Head(ts)), q, cfg, Tail(ts))

\* The sources the tasks ts fetch.
FetchedBy(cfg, ts) ==
    UNION { IF ts[i].t = "FetchSource" THEN {ts[i].arg} \cap cfg
            ELSE IF ts[i].t = "FetchSources" THEN cfg ELSE {} : i \in 1..Len(ts) }

\* ------------------------------------------------------------ actions

\* PollStrategy::UpTo(3): the messages one tick returns at most.
MaxBatch == 3

\* Ui::new
Init ==
    /\ config \in Configs
    /\ kiosk = NewKiosk(config)
    /\ running = {}
    /\ queue = <<>>
    /\ feedList = [n \in {} |-> ""]
    /\ feedSel = <<>>
    /\ articleList = <<>>
    /\ article = <<>>
    /\ quitPopup = FALSE
    /\ errorPopup = <<>>
    /\ quit = FALSE
    /\ redraw = FALSE
    /\ tasks = <<>>
    /\ batch = 0
    /\ pc = "new"
    /\ launched = [n \in config |-> 0]
    /\ requested = [n \in config |-> 0]
    /\ refetches = 0
    /\ overlapped = [n \in config |-> FALSE]
    /\ ev = NoEv
    /\ readable = NoReadable
    /\ ret = NoRet

\* Ui::run up to the loop: the components are mounted (init_application)
\* and every source is fetched once.
RunStart ==
    /\ pc = "new"
    /\ LET u == FetchAllSources(
                    UiOf(kiosk, running, GetFeedList(kiosk), launched, overlapped),
                    queue, config)
       IN  /\ kiosk' = u.kiosk
           /\ running' = u.running
           /\ feedList' = u.feedList
           /\ launched' = u.launched
           /\ overlapped' = u.overlapped
    /\ feedSel' = FeedListInitState(kiosk)
    /\ articleList' = GetEmptyArticleList
    /\ requested' = [n \in config |-> requested[n] + 1]
    /\ redraw' = (config # {})
    /\ pc' = "tick"
    /\ ev' = [NoEv EXCEPT !.op = "fetch", !.names = config]
    /\ UNCHANGED <<readable, ret, config, queue, article, quitPopup, errorPopup, quit, tasks, batch,
                   refetches>>

\* The loop without its test of quit: the next tick is taken whatever quit is.
TickIgnoresQuit(n) ==
    /\ pc = "tick"
    /\ batch' = n
    /\ redraw' = (redraw \/ n > 0)
    /\ pc' = IF n = 0 THEN "tasks" ELSE "msgs"
    /\ ev' = NoEv
    /\ UNCHANGED <<readable, ret, config, kiosk, running, queue, feedList, feedSel, articleList,
                   article, quitPopup, errorPopup, quit, tasks, launched,
                   requested, refetches, overlapped>>

\* app.tick(PollStrategy::UpTo(3)) returns Ok with n messages.
Tick(n) ==
    /\ pc = "tick"
    /\ ~quit
    /\ batch' = n
    /\ redraw' = (redraw \/ n > 0)
    /\ pc' = IF n = 0 THEN "tasks" ELSE "msgs"
    /\ ev' = NoEv
    /\ UNCHANGED <<readable, ret, config, kiosk, running, queue, feedList, feedSel, articleList,
                   article, quitPopup, errorPopup, quit, tasks, launched,
                   requested, refetches, overlapped>>

\* app.tick returns Err: the error is shown in the popup.
TickError ==
    /\ pc = "tick"
    /\ ~quit
    /\ errorPopup' = MountErrorPopup(TickErrorText)
    /\ pc' = "tasks"
    /\ ev' = NoEv
    /\ UNCHANGED <<readable, ret, config, kiosk, running, queue, feedList, feedSel, articleList,
                   article, quitPopup, quit, redraw, tasks, batch, launched,
                   requested, refetches, overlapped>>

\* `while !self.quit` with quit set: run() leaves the loop.
LoopExit ==
    /\ pc = "tick"
    /\ quit
    /\ pc' = "done"
    /\ ev' = NoEv
    /\ UNCHANGED <<readable, ret, config, kiosk, running, queue, feedList, feedSel, articleList,
                   article, quitPopup, errorPopup, quit, redraw, tasks, batch,
                   launched, requested, refetches, overlapped>>

\* What every arm of Update::update shares: one message of the batch is
\* reduced, redraw is set, and the loop goes on to the next message (or to
\* run_tasks after the last), unless the arm panicked.
Reduced(msg, panicked) ==
    /\ pc = "msgs"
    /\ batch > 0
    /\ batch' = IF panicked THEN batch ELSE batch - 1
    /\ redraw' = TRUE
    /\ pc' = IF panicked THEN "panic" ELSE IF batch = 1 THEN "tasks" ELSE "msgs"
    /\ ev' = NoEv

\* Msg::ArticleBlur, ArticleListBlur, FeedListBlur, GoReadArticle: the active
\* component changes; Msg::None: nothing.
FocusMsgs == {"ArticleBlur", "ArticleListBlur", "FeedListBlur", "GoReadArticle", "None"}

MsgFocus(type) ==
    /\ Reduced([type |-> type, idx |-> 0], FALSE)
    /\ UNCHANGED <<readable, ret, config, kiosk, running, queue, feedList, feedSel, articleList,
                   article, quitPopup, errorPopup, quit, tasks, launched,
                   requested, refetches, overlapped>>

\* Msg::ArticleChanged(j), j a row of the ArticleList.
MsgArticleChanged(j) ==
    /\ j < Len(articleList)
    /\ LET r == UpdateArticle(kiosk, feedSel, article, j)
       IN  /\ Reduced([type |-> "ArticleChanged", idx |-> j], r.panic)
           /\ article' = r.article
    /\ UNCHANGED <<readable, ret, config, kiosk, running, queue, feedList, feedSel, articleList,
                   quitPopup, errorPopup, quit, tasks, launched, requested, refetches,
                   overlapped>>

\* Msg::CloseApp
MsgCloseApp ==
    /\ Reduced([type |-> "CloseApp", idx |-> 0], FALSE)
    /\ quit' = TRUE
    /\ UNCHANGED <<readable, ret, config, kiosk, running, queue, feedList, feedSel, articleList,
                   article, quitPopup, errorPopup, tasks, launched, requested, refetches,
                   overlapped>>

\* Msg::CloseErrorPopup
MsgCloseErrorPopup ==
    /\ Reduced([type |-> "CloseErrorPopup", idx |-> 0], FALSE)
    /\ errorPopup' = <<>>
    /\ UNCHANGED <<readable, ret, config, kiosk, running, queue, feedList, feedSel, articleList,
                   article, quitPopup, quit, tasks, launched, requested, refetches,
                   overlapped>>

\* Msg::CloseQuitPopup
MsgCloseQuitPopup ==
    /\ Reduced([type |-> "CloseQuitPopup", idx |-> 0], FALSE)
    /\ quitPopup' = FALSE
    /\ UNCHANGED <<readable, ret, config, kiosk, running, queue, feedList, feedSel, articleList,
                   article, errorPopup, quit, tasks, launched, requested, refetches,
                   overlapped>>

\* Msg::FeedChanged(i), i the row the FeedList moved to.
MsgFeedChanged(i) ==
    /\ i < Cardinality(DOMAIN feedList)
    /\ LET sorted == SortedSources(kiosk)
           panicked == ~(i < Len(sorted))
           feed == IF panicked THEN <<>> ELSE GetFeed(kiosk, sorted[i + 1])
           r == IF feed = <<>> THEN [panic |-> FALSE, article |-> article]
                ELSE UpdateArticle(kiosk, <<i>>, article, 0)
       IN  /\ Reduced([type |-> "FeedChanged", idx |-> i], panicked \/ r.panic)
           /\ feedSel' = <<i>>
           /\ articleList' = IF feed = <<>> THEN articleList ELSE GetArticleList(feed[1])
           /\ article' = r.article
    /\ UNCHANGED <<readable, ret, config, kiosk, running, queue, feedList, quitPopup, errorPopup,
                   quit, tasks, launched, requested, refetches, overlapped>>

\* Msg::FetchSource
MsgFetchSource ==
    /\ LET n == GetSelectedFeedName(kiosk, feedSel)
       IN  /\ refetches < MaxRefetch
           /\ Reduced([type |-> "FetchSource", idx |-> 0], n.panic)
           /\ tasks' = IF n.name = <<>> THEN tasks
                       ELSE Append(tasks, TaskFetchSource(n.name[1]))
           /\ requested' = IF n.name = <<>> THEN requested
                           ELSE [requested EXCEPT ![n.name[1]] = @ + 1]
           /\ refetches' = IF n.name = <<>> THEN refetches ELSE refetches + 1
    /\ UNCHANGED <<readable, ret, config, kiosk, running, queue, feedList, feedSel, articleList,
                   article, quitPopup, errorPopup, quit, launched, overlapped>>

\* Msg::FetchAllSources
MsgFetchAllSources ==
    /\ refetches < MaxRefetch
    /\ Reduced([type |-> "FetchAllSources", idx |-> 0], FALSE)
    /\ tasks' = Append(tasks, TaskFetchSources)
    /\ requested' = [n \in config |-> requested[n] + 1]
    /\ refetches' = refetches + 1
    /\ UNCHANGED <<readable, ret, config, kiosk, running, queue, feedList, feedSel, articleList,
                   article, quitPopup, errorPopup, quit, launched, overlapped>>

\* Msg::OpenArticle: open_link succeeds (failed = <<>>) or fails with
\* failed = <<err>>; without a mounted ArticleLink nothing is opened.
MsgOpenArticle(failed) ==
    /\ Reduced([type |-> "OpenArticle", idx |-> 0], FALSE)
    /\ tasks' = IF article # <<>> /\ failed # <<>>
                THEN Append(tasks, TaskShowError(failed[1])) ELSE tasks
    /\ UNCHANGED <<readable, ret, config, kiosk, running, queue, feedList, feedSel, articleList,
                   article, quitPopup, errorPopup, quit, launched, requested, refetches,
                   overlapped>>

\* Msg::ShowQuitPopup handled as a confirmed quit.
MsgShowQuitPopupQuits ==
    /\ Reduced([type |-> "ShowQuitPopup", idx |-> 0], FALSE)
    /\ quitPopup' = TRUE
    /\ quit' = TRUE
    /\ UNCHANGED <<readable, ret, config, kiosk, running, queue, feedList, feedSel, articleList,
                   article, errorPopup, tasks, launched, requested, refetches,
                   overlapped>>

\* Msg::ShowQuitPopup
MsgShowQuitPopup ==
    /\ Reduced([type |-> "ShowQuitPopup", idx |-> 0], FALSE)
    /\ quitPopup' = TRUE
    /\ UNCHANGED <<readable, ret, config, kiosk, running, queue, feedList, feedSel, articleList,
                   article, errorPopup, quit, tasks, launched, requested, refetches,
                   overlapped>>

\* Ui::run_tasks
RunTasks ==
    /\ pc = "tasks"
    /\ LET x == RunTaskList(
                    [u |-> UiOf(kiosk, running, feedList, launched, overlapped),
                     popup |-> errorPopup],
                    queue, config, tasks)
       IN  /\ kiosk' = x.u.kiosk
           /\ running' = x.u.running
           /\ feedList' = x.u.feedList
           /\ launched' = x.u.launched
           /\ overlapped' = x.u.overlapped
           /\ errorPopup' = x.popup
    /\ tasks' = <<>>
    /\ redraw' = (redraw \/ FetchedBy(config, tasks) # {})
    /\ pc' = "poll"
    /\ ev' = IF FetchedBy(config, tasks) = {} THEN NoEv
             ELSE [NoEv EXCEPT !.op = "fetch", !.names = FetchedBy(config, tasks)]
    /\ UNCHANGED <<readable, ret, config, queue, feedSel, articleList, article, quitPopup, quit,
                   batch, requested, refetches>>

\* Ui::poll_fetched_sources with a completion in the queue.
PollCompletion(result) ==
    /\ pc = "poll"
    /\ ClientPoll(queue) # <<>>
    /\ result \in ResultsOf(ClientPoll(queue)[1].name)
    /\ LET c == [name |-> ClientPoll(queue)[1].name, gen |-> ClientPoll(queue)[1].gen,
                 result |-> result]
       IN  /\ kiosk' = PollKiosk(kiosk, c)
           /\ feedList' = PollFeedList(feedList, c)
           /\ errorPopup' = PollErrorPopup(errorPopup, c)
           /\ articleList' = PollArticleList(kiosk, articleList, c)
           /\ article' = PollArticleView(kiosk, articleList, article, c)
           /\ running' = PollRunning(running, c)
           /\ ev' = [NoEv EXCEPT !.op = "poll", !.c = c,
                                 !.wasEmpty = IsArticleListEmpty(articleList)]
    /\ queue' = ClientTaken(queue)
    /\ redraw' = TRUE
    /\ pc' = "view"
    /\ UNCHANGED <<readable, ret, config, feedSel, quitPopup, quit, tasks, batch, launched,
                   requested, refetches, overlapped>>

\* Ui::poll_fetched_sources with an empty queue.
PollNothing ==
    /\ pc = "poll"
    /\ ClientPoll(queue) = <<>>
    /\ pc' = "view"
    /\ ev' = [NoEv EXCEPT !.op = "idle"]
    /\ UNCHANGED <<readable, ret, config, kiosk, running, queue, feedList, feedSel, articleList,
                   article, quitPopup, errorPopup, quit, redraw, tasks, batch,
                   launched, requested, refetches, overlapped>>

\* check_force_redraw and view: whatever was to be drawn is drawn.
View ==
    /\ pc = "view"
    /\ redraw' = FALSE
    /\ pc' = "tick"
    /\ ev' = NoEv
    /\ UNCHANGED <<readable, ret, config, kiosk, running, queue, feedList, feedSel, articleList,
                   article, quitPopup, errorPopup, quit, tasks, batch, launched,
                   requested, refetches, overlapped>>

\* A worker ends: its result goes to the back of the completion queue.
WorkerFinish(w) ==
    /\ pc \notin {"done", "panic"}
    /\ w \in running
    /\ running' = running \ {w}
    /\ queue' = Append(queue, [name |-> w[1], gen |-> w[2]])
    /\ UNCHANGED <<readable, ret, config, kiosk, feedList, feedSel, articleList, article,
                   quitPopup, errorPopup, quit, redraw, tasks, batch, pc,
                   launched, requested, refetches, overlapped, ev>>

Next ==
    \/ RunStart
    \/ \E n \in 0..MaxBatch : Tick(n)
    \/ TickError
    \/ LoopExit
    \/ \E t \in FocusMsgs : MsgFocus(t)
    \/ \E j \in 0..1 : MsgArticleChanged(j)
    \/ MsgCloseApp
    \/ MsgCloseErrorPopup
    \/ MsgCloseQuitPopup
    \/ \E i \in 0..(Len(NameOrder) - 1) : MsgFeedChanged(i)
    \/ MsgFetchSource
    \/ MsgFetchAllSources
    \/ \E f \in {<<>>} \cup {<<e>> : e \in OpenErrors} : MsgOpenArticle(f)
    \/ MsgShowQuitPopup
    \/ RunTasks
    \/ \E r \in UNION {ResultsOf(n) : n \in Names} : PollCompletion(r)
    \/ PollNothing
    \/ View
    \/ \E w \in running : WorkerFinish(w)

Spec == Init /\ [][Next]_vars

\* The steps of the thread that runs Ui::run: every step but a worker's end.
MainNext ==
    \/ RunStart
    \/ \E n \in 0..MaxBatch : Tick(n)
    \/ TickError
    \/ LoopExit
    \/ \E t \in FocusMsgs : MsgFocus(t)
    \/ \E j \in 0..1 : MsgArticleChanged(j)
    \/ MsgCloseApp
    \/ MsgCloseErrorPopup
    \/ MsgCloseQuitPopup
    \/ \E i \in 0..(Len(NameOrder) - 1) : MsgFeedChanged(i)
    \/ MsgFetchSource
    \/ MsgFetchAllSources
    \/ \E f \in {<<>>} \cup {<<e>> : e \in OpenErrors} : MsgOpenArticle(f)
    \/ MsgShowQuitPopup
    \/ RunTasks
    \/ \E r \in UNION {ResultsOf(n) : n \in Names} : PollCompletion(r)
    \/ PollNothing
    \/ View

\* The steps of the FeedClient's workers.
WorkerNext == \E w \in running : WorkerFinish(w)

\* The program with its scheduling: the thread of Ui::run is never blocked
\* (app.tick returns after its timeout, every call of the loop body returns),
\* so it goes on as long as it has a step to take, and a running worker
\* gets to its end.
\* Sources of the configurations the scheduled program is started with.
MaxLiveSources == 1

InitLive == Init /\ Cardinality(config) <= MaxLiveSources

SpecLive == InitLive /\ [][Next]_vars /\ WF_vars(MainNext) /\ WF_vars(WorkerNext)

\* ------------------------------------------------------------ functions
\* sorted_sources, get_feed_list and deserialize called on their own, on
\* every Kiosk content and on every Read.

\* The strings of StringOrder.
Strings == {StringOrder[i] : i \in 1..Len(StringOrder)}

\* Kiosk contents: any set of names, each source in any state.
KioskContents ==
    UNION {[S -> {Loading, Success(<<>>), Error("connection refused")}] :
              S \in SUBSET Strings}

FnInit ==
    /\ \/ kiosk \in KioskContents /\ readable = NoReadable
       \/ kiosk = KioskDefault /\ readable \in Readables
    /\ config = DOMAIN kiosk
    /\ running = {}
    /\ queue = <<>>
    /\ feedList = [n \in {} |-> ""]
    /\ feedSel = <<>>
    /\ articleList = <<>>
    /\ article = <<>>
    /\ quitPopup = FALSE
    /\ errorPopup = <<>>
    /\ quit = FALSE
    /\ redraw = FALSE
    /\ tasks = <<>>
    /\ batch = 0
    /\ pc = "new"
    /\ launched = [n \in config |-> 0]
    /\ requested = [n \in config |-> 0]
    /\ refetches = 0
    /\ overlapped = [n \in config |-> FALSE]
    /\ ev = NoEv
    /\ ret = NoRet

\* A call that returns val and writes nothing.
Returns(fn, val) ==
    /\ ret' = [fn |-> fn, val |-> val]
    /\ UNCHANGED <<readable, config, kiosk, running, queue, feedList, feedSel,
                   articleList, article, quitPopup, errorPopup, quit, redraw, tasks,
                   batch, pc, launched, requested, refetches, overlapped, ev>>

\* self.sorted_sources()
CallSortedSources == Returns("sorted_sources", SortedSources(kiosk))

\* self.get_feed_list(): the rows handed to FeedList::new, in their order.
CallGetFeedList ==
    Returns("get_feed_list",
            [i \in 1..Len(FeedListOrder(kiosk)) |->
                <<FeedListOrder(kiosk)[i], GetFeedList(kiosk)[FeedListOrder(kiosk)[i]]>>])

\* deserialize(readable)
CallDeserialize == Returns("deserialize", Deserialize(readable))

FnNext ==
    \/ CallSortedSources
    \/ CallGetFeedList
    \/ CallDeserialize

SpecFn == FnInit /\ [][FnNext]_vars

\* ------------------------------------------------------------ claims

\* The completion the latest step of the main loop applied, if it was a poll
\* that found one.
Polled == ev.op = "poll"

\* The workers named in the completion queue.
QueuedWorkers == {<<queue[i].name, queue[i].gen>> : i \in 1..Len(queue)}

\* Task::FetchSource and Task::FetchSources entries of ts that will fetch n.
PendingFetches(ts, n) ==
    Cardinality({i \in 1..Len(ts) :
        \/ ts[i].t = "FetchSources"
        \/ ts[i].t = "FetchSource" /\ ts[i].arg = n})

C2_PolledResultStored ==
    Polled =>
        /\ ev.c.result.ok =>
            /\ kiosk[ev.c.name] = [tag |-> "Success", feed |-> ev.c.result.feed, msg |-> ""]
            /\ GetState(kiosk)[ev.c.name] = "Success"
        /\ ~ev.c.result.ok =>
            /\ kiosk[ev.c.name] = [tag |-> "Error", feed |-> <<>>, msg |-> ev.c.result.err]
            /\ GetState(kiosk)[ev.c.name] = "Error"

\* C2 happens: a failing completion has been polled.
C2_Witness ==
    /\ Polled
    /\ ~ev.c.result.ok
    /\ ev.c.result.err \in Causes
    /\ kiosk[ev.c.name].tag = "Error"

C4_KeySetFixed ==
    /\ Sources(kiosk) = config
    /\ \A n \in config : kiosk[n].tag \in {"Loading", "Success", "Error"}

\* C4 happens: two sources, both fetched again, a completion applied.
C4_Witness ==
    /\ config = Names
    /\ Polled
    /\ \A n \in config : launched[n] = 2
    /\ Sources(kiosk) = Names

\* C5: right after Ui::new every configured name is Loading in the Kiosk, no
\* other name is held, quit is false and no popup is mounted.
C5_AfterNew ==
    pc = "new" =>
        /\ Sources(kiosk) = config
        /\ \A n \in config : kiosk[n] = Loading /\ GetFeed(kiosk, n) = <<>>
        /\ ~quit
        /\ ~quitPopup
        /\ errorPopup = <<>>

\* C5 happens: Ui::new has run on a configuration of two sources.
C5_Witness ==
    /\ pc = "new"
    /\ config = Names
    /\ \A n \in Names : kiosk[n].tag = "Loading"

\* C6: every fetch launched answers a request (the start-up fetch or a
\* FetchSource / FetchAllSources task): per source, the requests are the
\* launched fetches plus the tasks not run yet; the workers that exist are
\* launched ones, each once; and a completion that poll returned is gone from
\* the client, its worker is not started again.
C6_NoFetchWithoutRequest ==
    /\ \A n \in config : requested[n] = launched[n] + PendingFetches(tasks, n)
    /\ \A w \in running \cup QueuedWorkers : w[1] \in config /\ w[2] \in 1..launched[w[1]]
    /\ running \cap QueuedWorkers = {}
    /\ Cardinality(QueuedWorkers) = Len(queue)
    /\ Polled => <<ev.c.name, ev.c.gen>> \notin running \cup QueuedWorkers

\* C6 happens: the only fetch of a source failed, was polled, and nothing is
\* in flight or queued for that source afterwards.
C6_Witness ==
    /\ Polled
    /\ ~ev.c.result.ok
    /\ launched[ev.c.name] = 1
    /\ requested[ev.c.name] = 1
    /\ Outstanding(running, queue, ev.c.name) = 0

\* The first of the sorted sources that is Success in k: <<n>> or <<>>.
FirstLoaded(k) ==
    LET loaded == {n \in Sources(k) : k[n].tag = "Success"}
    IN  IF loaded = {} THEN <<>> ELSE <<SortNames(loaded)[1]>>

\* The ArticleList and the detail view show feed: its titles, and its first
\* article when it has one.
Shows(feed) ==
    /\ articleList = GetArticleList(feed)
    /\ feed # <<>> => article = <<feed[1]>>

C8_FirstSourceSelected ==
    Polled /\ ev.c.result.ok /\ ev.wasEmpty /\ ev.c.result.feed # <<>>
           /\ ev.c.name = SortedSources(kiosk)[1] =>
        /\ articleList = GetArticleList(ev.c.result.feed)
        /\ articleList # <<>>
        /\ article = <<ev.c.result.feed[1]>>

\* C8 happens: the fetch of "a" succeeded with two articles while "b" was
\* configured as well and nothing was listed.
C8_Witness ==
    /\ Polled
    /\ ev.c.result.ok
    /\ ev.wasEmpty
    /\ ev.c.name = "a"
    /\ config = Names
    /\ Len(ev.c.result.feed) = 2
    /\ article = <<ev.c.result.feed[1]>>

\* A step of poll_fetched_sources that applies a completion for n.
PollStepFor(n) ==
    /\ pc = "poll"
    /\ pc' = "view"
    /\ queue # <<>>
    /\ Head(queue).name = n

\* C9: applying a completion for S leaves the Kiosk entry of every other
\* source as it was, and a failing completion applied while articles are
\* listed leaves the article list and the article shown as they were.
C9_PollFrame ==
    [][\A n \in config : PollStepFor(n) =>
          /\ \A m \in config \ {n} : kiosk'[m] = kiosk[m]
          /\ Sources(kiosk') = Sources(kiosk)
          /\ (articleList # <<>> /\ kiosk'[n].tag = "Error") =>
                (articleList' = articleList /\ article' = article)]_vars

\* C9 happens: a fetch failed while the articles of a source that is still
\* Success were listed.
C9_Witness ==
    /\ Polled
    /\ ~ev.c.result.ok
    /\ ~ev.wasEmpty
    /\ articleList # <<>>
    /\ article # <<>>
    /\ \E m \in config \ {ev.c.name} :
          kiosk[m].tag = "Success" /\ articleList = GetArticleList(kiosk[m].feed)

\* C10: a failing completion for S leaves, in one step, Error(cause) in the
\* Kiosk and the popup `Could not fetch feed "S": cause` mounted, with the
\* main loop on its way to the next tick (a worker may finish meanwhile); no
\* poll step changes quit; and only CloseErrorPopup unmounts the popup, which
\* it always does.
C10_FetchErrorPopup ==
    /\ [](Polled /\ ~ev.c.result.ok =>
            /\ errorPopup =
                 <<"Could not fetch feed \"" \o ev.c.name \o "\": " \o ev.c.result.err>>
            /\ kiosk[ev.c.name] = Error(ev.c.result.err)
            /\ pc = "view")
    /\ [][/\ pc = "poll" => quit' = quit
          /\ pc = "view" => pc' \in {"view", "tick"}
          /\ (errorPopup # <<>> /\ errorPopup' = <<>>) => MsgCloseErrorPopup
          /\ MsgCloseErrorPopup => errorPopup' = <<>>]_vars

\* C10 happens: the fetch of "b" failed while quit was false, and the popup
\* names "b" and the cause.
C10_Witness ==
    /\ Polled
    /\ ~ev.c.result.ok
    /\ ev.c.name = "b"
    /\ errorPopup = <<"Could not fetch feed \"b\": connection refused">>
    /\ kiosk["b"].tag = "Error"
    /\ ~quit

\* The Feed the Kiosk holds for the source at sorted position i: <<f>>, or
\* <<>> when that source is Loading or Error.
FeedAt(k, i) == GetFeed(k, SortedSources(k)[i + 1])

\* C11 as stated: handling FeedChanged(i) leaves the article list of the
\* source at sorted position i and its first article displayed, or an empty
\* list and no article when that source is Loading, Error or has no articles.
C11_Original ==
    [][\A i \in 0..(Len(NameOrder) - 1) : MsgFeedChanged(i) =>
          LET f == FeedAt(kiosk, i)
          IN  IF f # <<>> /\ f[1] # <<>>
              THEN articleList' = GetArticleList(f[1]) /\ article' = <<f[1][1]>>
              ELSE articleList' = <<>> /\ article' = <<>>]_vars

\* C11 fails here: FeedChanged moved the selection to a source without a
\* Feed, and the list and the article of another source are still displayed.
C11_Witness ==
    /\ feedSel # <<>>
    /\ batch < MaxBatch
    /\ pc \in {"msgs", "tasks"}
    /\ FeedAt(kiosk, feedSel[1]) = <<>>
    /\ articleList # <<>>
    /\ article # <<>>
    /\ article[1].src # SortedSources(kiosk)[feedSel[1] + 1]
    /\ kiosk[article[1].src].tag = "Success"

C13_Original == pc # "panic"

\* C13 fails here: ArticleChanged was reduced while the selected source held
\* no Feed, and the unwrap() in get_selected_feed unwound the main loop.
C13_Witness ==
    /\ pc = "panic"
    /\ feedSel # <<>>
    /\ feedSel[1] < Len(SortedSources(kiosk))
    /\ FeedAt(kiosk, feedSel[1]) = <<>>
    /\ articleList # <<>>

\* C14: ShowQuitPopup mounts the quit popup and CloseQuitPopup unmounts it,
\* both without writing quit; no step but CloseApp takes quit from false to
\* true, CloseApp always leaves it true, and no step takes it back to false.
C14_QuitProtocol ==
    [][/\ MsgShowQuitPopup => quitPopup' /\ quit' = quit
       /\ MsgCloseQuitPopup => ~quitPopup' /\ quit' = quit
       /\ MsgCloseApp => quit'
       /\ (~quit /\ quit') => MsgCloseApp
       /\ quit => quit']_vars

\* C14 happens: the quit popup was opened and the quit confirmed, and run()
\* has left the loop.
C14_Witness ==
    /\ quit
    /\ quitPopup
    /\ pc = "done"

\* names holds every element of keys once, in strictly increasing order.
SortedPermutation(names, keys) ==
    /\ Len(names) = Cardinality(keys)
    /\ {names[i] : i \in 1..Len(names)} = keys
    /\ \A i, j \in 1..Len(names) : i < j => Rank(names[i]) < Rank(names[j])

\* C15: what sorted_sources returns, and the names of the rows get_feed_list
\* builds, are the keys of the Kiosk, each once, strictly increasing.
C15_SortedSources ==
    /\ ret.fn = "sorted_sources" => SortedPermutation(ret.val, Sources(kiosk))
    /\ ret.fn = "get_feed_list" =>
          /\ SortedPermutation([i \in 1..Len(ret.val) |-> ret.val[i][1]], Sources(kiosk))
          /\ \A i \in 1..Len(ret.val) : ret.val[i][2] = Flat(kiosk[ret.val[i][1]])

\* C15 happens: sorted_sources returned the four names of a Kiosk, "ab"
\* between "a" and "b".
C15_Witness ==
    /\ ret.fn = "sorted_sources"
    /\ Sources(kiosk) = Strings
    /\ ret.val = <<"a", "ab", "b", "c">>

\* C17: deserialize returns an Io error for a Read that fails, a Syntax
\* error for a document that is not a well-formed configuration, and the
\* configuration otherwise; the good document of the tests gives its two
\* sources, the bad one an error; an error is displayed as kind (message).
C17_Deserialize ==
    ret.fn = "deserialize" =>
        LET t == TomlFromStr(readable.data)
        IN  /\ readable.err # <<>> =>
                /\ ~ret.val.ok
                /\ ret.val.err.kind = "Io"
                /\ Fmt(ret.val.err) = "IO error (" \o readable.err[1] \o ")"
            /\ (readable.err = <<>> /\ ~t.ok) =>
                /\ ~ret.val.ok
                /\ ret.val.err.kind = "Syntax"
                /\ Fmt(ret.val.err) = "Syntax error (" \o t.msg \o ")"
            /\ (readable.err = <<>> /\ t.ok) =>
                /\ ret.val.ok
                /\ ret.val.val = t.val
            /\ ~ret.val.ok => ret.val.val = NoConfig
            /\ (readable.err = <<>> /\ readable.data = GoodToml) =>
                /\ ret.val.ok
                /\ DOMAIN ret.val.val.sources = {"nytimes", "lefigaro"}
                /\ ret.val.val.sources["nytimes"] =
                      "https://rss.nytimes.com/services/xml/rss/nyt/World.xml"
                /\ ret.val.val.sources["lefigaro"] =
                      "https://www.lefigaro.fr/rss/figaro_actualites.xml"
            /\ readable.data = BadToml => ~ret.val.ok

\* C17 happens: the bad document of the tests was read and refused with a
\* Syntax error.
C17_Witness ==
    /\ ret.fn = "deserialize"
    /\ readable = [data |-> BadToml, err |-> <<>>]
    /\ ~ret.val.ok
    /\ Fmt(ret.val.err) = "Syntax error (expected an equals, found a newline at line 3)"

\* The workers for source n that r2 holds and r1 does not.
Launched(r1, r2, n) == {w \in r2 \ r1 : w[1] = n}

PollStep == pc = "poll" /\ pc' = "view"

C20_Fifo ==
    [][/\ Len(queue') > Len(queue) =>
            \E w \in running :
                /\ queue' = Append(queue, [name |-> w[1], gen |-> w[2]])
                /\ running' = running \ {w}
       /\ Len(queue') < Len(queue) =>
            /\ queue' = Tail(queue)
            /\ ev'.op = "poll"
            /\ ev'.c.name = Head(queue).name
            /\ ev'.c.gen = Head(queue).gen
            /\ kiosk'[Head(queue).name] = StateOfResult(ev'.c.result)
       /\ Len(queue') = Len(queue) => queue' = queue]_vars

\* C20 happens: the second fetch of a source ended first and was applied
\* first, while the completion of the first fetch waits in the queue.
C20_Witness ==
    /\ Polled
    /\ ev.c.gen = 2
    /\ <<ev.c.name, 1>> \in QueuedWorkers
    /\ kiosk[ev.c.name] = StateOfResult(ev.c.result)

\* C21 as stated: the quit popup and the error popup are never mounted at the
\* same time.
C21_Original == ~(quitPopup /\ errorPopup # <<>>)

\* C21 fails here: a fetch failed while the quit popup was open; both popups
\* are mounted, the error popup was given the focus and view draws the quit
\* popup.
C21_Witness ==
    /\ Polled
    /\ ~ev.c.result.ok
    /\ quitPopup
    /\ errorPopup = <<FetchErrorText(ev.c.name, ev.c.result.err)>>
    /\ DrawnPopup(quitPopup, errorPopup) = "quit"

\* C22 as stated: once quit is true no further message of the batch is
\* reduced, no completion is polled and applied and no fetch is launched.
C22_Original ==
    [][quit => /\ batch' = batch
               /\ kiosk' = kiosk
               /\ Len(queue') >= Len(queue)
               /\ launched' = launched]_vars

\* C22, amended: quit stays true once set; the iteration in which CloseApp was
\* reduced is finished (the rest of the batch, run_tasks, one poll, view) and
\* never started again: at the next loop test nothing but the exit happens, no
\* batch is taken, and after the exit nothing changes at all.
C22_ExitsAtNextLoopTest ==
    [][/\ quit => quit'
       /\ (quit /\ pc' = "msgs") => pc = "msgs"
       /\ (quit /\ pc = "tick") =>
             /\ pc' \in {"tick", "done"}
             /\ batch' = batch
             /\ kiosk' = kiosk
             /\ Len(queue') >= Len(queue)
             /\ launched' = launched
       /\ pc = "done" => (quit /\ UNCHANGED vars)]_vars

\* C22 happens: after CloseApp a completion was still polled and applied in
\* the iteration that is being finished.
C22_Witness ==
    /\ quit
    /\ Polled
    /\ pc = "view"
    /\ kiosk[ev.c.name] = StateOfResult(ev.c.result)

\* C23 as stated: when the ArticleList shows the titles of the selected
\* source's feed, ArticleChanged(j) puts into the detail view the article
\* whose title is row j of that list.
C23_Original ==
    [][\A j \in 0..1 :
          LET f == GetSelectedFeed(kiosk, feedSel)
          IN  (/\ MsgArticleChanged(j)
               /\ ~f.panic
               /\ f.feed # <<>>
               /\ articleList = GetArticleList(f.feed[1]))
              => /\ article' # <<>>
                 /\ article'[1].title = <<articleList[j + 1]>>]_vars

\* C23 fails from here: a batch is being reduced, the selected source's feed
\* starts with an article without a title, and the ArticleList shows the
\* titles of that feed, so that row 0 is the title of the feed's article 1.
C23_Witness ==
    LET f == GetSelectedFeed(kiosk, feedSel)
    IN  /\ pc = "msgs"
        /\ ~f.panic
        /\ f.feed # <<>>
        /\ Len(f.feed[1]) = 2
        /\ f.feed[1][1].title = <<>>
        /\ articleList = GetArticleList(f.feed[1])
        /\ articleList = f.feed[1][2].title

\* C24: from the start-up fetch on, at every position of the main loop, a
\* source whose Kiosk state is Loading has a fetch that has not been polled:
\* a worker in flight or a completion in the queue.
C24_LoadingHasPendingFetch ==
    pc # "new" =>
        \A n \in config :
            kiosk[n] = Loading => Outstanding(running, queue, n) > 0

\* C24 happens: at the poll step a source is Loading after a second fetch
\* request, no worker of it is in flight any more, and the one thing pending
\* for it is a completion in the queue.
C24_Witness ==
    \E n \in config :
        /\ pc = "poll"
        /\ kiosk[n] = Loading
        /\ launched[n] = 2
        /\ {w \in running : w[1] = n} = {}
        /\ Outstanding(running, queue, n) = 1

\* C26: from the moment the feed list is mounted, and so after every fetch
\* request and after every applied completion, the status the FeedList shows
\* for each source is the flat projection of that source's Kiosk state.
C26_FeedListIsFlatKiosk == pc # "new" => feedList = GetState(kiosk)

\* C26 happens: a completion was just applied and shows as Error, while
\* another source, requested a second time, shows as Loading.
C26_Witness ==
    \E n, m \in config :
        /\ Polled
        /\ ev.c.name = n
        /\ feedList[n] = "Error"
        /\ kiosk[n].tag = "Error"
        /\ launched[m] = 2
        /\ feedList[m] = "Loading"
        /\ kiosk[m] = Loading

\* Nothing is pending: no worker in flight, no completion in the queue and no
\* source Loading.
Settled ==
    /\ running = {}
    /\ queue = <<>>
    /\ \A n \in config : kiosk[n] # Loading

====
